---- MODULE Spec2Model ----
(***************************************************************************)
(* Infinite Gaussian mixture model sampler                                 *)
(* (nipy/neurospin/clustering/imm.py, classes IMM and MixedIMM).           *)
(*                                                                         *)
(* Python values are modelled as follows.  An array is a sequence; labels  *)
(* and column indexes keep their 0-based Python values.  A float that the  *)
(* code computes by rational arithmetic is an exact fraction <<num, den>>  *)
(* in lowest terms.  A density that the code computes with log/exp/gamma   *)
(* is the record of the quantities it is computed from.  The attributes    *)
(* an instance holds are the set self.attrs (Python's __dict__ keys): an   *)
(* attribute that is read before it was assigned raises AttributeError.    *)
(* The random draws (np.random, BGMM.sample_indicator) are                  *)
(* nondeterministic choices over the outcomes of positive probability.     *)
(***************************************************************************)
EXTENDS Integers, Sequences, FiniteSets, TLC

(* ---------------------------- bounds ----------------------------------- *)
MaxN == 3       \* largest number of observations of a data set
MaxIter == 2    \* largest niter of a sample call
MaxLabel == 3   \* largest label of a vector handed to reduce directly
MaxCalls == 1   \* largest number of sample calls on one model object
MaxNull == 2    \* largest number of observations of a MixedIMM.sample call

(* --------------------------- helpers ----------------------------------- *)
Range(s) == {s[i] : i \in 1..Len(s)}

SetMax(S) == CHOOSE m \in S : \A e \in S : e <= m

SetMin(S) == CHOOSE m \in S : \A e \in S : m <= e

RECURSIVE SumSeq(_)
SumSeq(s) == IF Len(s) = 0 THEN 0 ELSE Head(s) + SumSeq(Tail(s))

RECURSIVE GCD(_, _)
GCD(a, b) == IF b = 0 THEN a ELSE GCD(b, a % b)

\* exact fractions <<num, den>>, den > 0, lowest terms
Frac(n, d) ==
    LET an == IF n < 0 THEN -n ELSE n
        g == GCD(an, d)
    IN  IF n = 0 THEN <<0, 1>> ELSE <<n \div g, d \div g>>

FAdd(p, q) == Frac(p[1] * q[2] + q[1] * p[2], p[2] * q[2])

FSub(p, q) == Frac(p[1] * q[2] - q[1] * p[2], p[2] * q[2])

FMul(p, q) == Frac(p[1] * q[1], p[2] * q[2])

\* p / q for q > 0
FDiv(p, q) == Frac(p[1] * q[2], p[2] * q[1])

FInt(n) == <<n, 1>>

FLess(p, q) == p[1] * q[2] < q[1] * p[2]

RECURSIVE FSum(_)
FSum(s) == IF Len(s) = 0 THEN <<0, 1>> ELSE FAdd(Head(s), FSum(Tail(s)))

\* the distinct values of a set without the sort: descending
RECURSIVE unique_unsorted(_)
unique_unsorted(S) ==
    IF S = {} THEN <<>> ELSE <<SetMax(S)>> \o unique_unsorted(S \ {SetMax(S)})

\* np.unique: the distinct values of a set, ascending
RECURSIVE unique(_)
unique(S) == IF S = {} THEN <<>> ELSE <<SetMin(S)>> \o unique(S \ {SetMin(S)})

\* a[mask]: the entries of a at the positions of I, in order
RECURSIVE Take(_, _)
Take(a, I) ==
    IF I = {} THEN <<>> ELSE <<a[SetMin(I)]>> \o Take(a, I \ {SetMin(I)})

\* a[mask] = v: the entries of v written at the positions of I, in order
Put(a, I, v) ==
    [p \in 1..Len(a) |->
        IF p \in I THEN v[Cardinality({q \in I : q <= p})] ELSE a[p]]

\* np.repeat(a[:1], k, 0)
RepeatFirst(a, k) == IF Len(a) = 0 THEN <<>> ELSE [j \in 1..k |-> a[1]]

\* c * np.ones(k)
Ones(c, k) == [j \in 1..k |-> c]

(* ------------------- program constants and inputs ---------------------- *)
\* IMM.__init__(alpha=.5, dim=1)
alpha == <<1, 2>>

\* small = 0.01 in set_priors
small == <<1, 100>>

\* 1.e-15, the floor of the variance in set_priors (below every positive
\* fraction the bounded inputs produce; it is never an operand of arithmetic
\* because the data handed to set_priors has a positive variance)
floor_vx == [tag |-> "1.e-15"]

\* data sets handed to sample
DataInputs == {[i \in 1..n |-> IF i = 1 THEN 0 ELSE 1] : n \in 1..MaxN}

\* data set handed to set_priors: two points, not equal
PriorInputs == {<<0, 1>>}

\* constant densities handed to set_constant_densities
DensInputs == {1, 2}

\* the per-point prior probabilities of the null (the same for every point)
NullProbaInputs(n) == {[i \in 1..n |-> p] : p \in {<<0, 1>>, <<1, 2>>, <<1, 1>>}}

\* Python's None, and a float attribute
None == [tag |-> "None"]

\* the sampling_points handed to sample: None, or a grid of two points
SamplingInputs == {None, <<0, 2>>}

Float(c) == [tag |-> "float", v |-> c]

(* ------------------------- the model object ---------------------------- *)
\* dim of IMM.__init__(alpha=.5, dim=1): matrices are 1 x 1, held as their entry
dim == 1

\* the attributes set_priors assigns
PriorAttrs ==
    {"_prior_means", "prior_means", "prior_weights", "_prior_scale",
     "prior_scale", "_prior_dof", "prior_dof", "_prior_shrinkage",
     "prior_shrinkage", "_dets_", "_dets", "_inv_prior_scale", "prior_dens"}

\* IMM.__init__ and MixedIMM.__init__: fields outside attrs hold a filler
IMM_init(cls) ==
    [cls |-> cls,
     attrs |-> {"dim", "alpha", "k", "prec_type", "weights"},
     k |-> 0,
     weights |-> <<FInt(1)>>,
     _prior_means |-> <<>>, prior_means |-> <<>>,
     prior_weights |-> FInt(0),
     _prior_scale |-> <<>>, prior_scale |-> <<>>,
     _prior_dof |-> 0, prior_dof |-> <<>>,
     _prior_shrinkage |-> FInt(0), prior_shrinkage |-> <<>>,
     _dets_ |-> FInt(0), _dets |-> <<>>,
     _inv_prior_scale |-> <<>>,
     prior_dens |-> None, null_dens |-> None,
     means |-> <<>>, precisions |-> <<>>]

\* bgmm.detsh: determinant of a symmetric matrix (1 x 1: its entry)
detsh(m) == m

\* set_priors without its last line, self.prior_dens = None
set_priors_keeps_dens(s, x) ==
    LET n == Len(x)
        mx == Frac(SumSeq(x), n)
        dx == [i \in 1..n |-> FSub(FInt(x[i]), mx)]
        dot == FSum([i \in 1..n |-> FMul(dx[i], dx[i])])
        var == FDiv(dot, FInt(n))
        vx == IF var[1] > 0 THEN var ELSE floor_vx
        px == FDiv(FInt(1), vx)
    IN  [s EXCEPT !.attrs = @ \cup (PriorAttrs \ {"prior_dens"}),
                  !._prior_means = <<mx>>,
                  !.prior_means = <<mx>>,
                  !.prior_weights = alpha,
                  !._prior_scale = <<px>>,
                  !.prior_scale = <<px>>,
                  !._prior_dof = dim + 2,
                  !.prior_dof = <<dim + 2>>,
                  !._prior_shrinkage = small,
                  !.prior_shrinkage = <<small>>,
                  !._dets_ = detsh(px),
                  !._dets = <<detsh(px)>>,
                  !._inv_prior_scale = <<FDiv(FInt(1), px)>>]

\* the body of IMM.set_priors
set_priors(s, x) ==
    LET n == Len(x)
        mx == Frac(SumSeq(x), n)
        dx == [i \in 1..n |-> FSub(FInt(x[i]), mx)]
        dot == FSum([i \in 1..n |-> FMul(dx[i], dx[i])])
        var == FDiv(dot, FInt(n))
        vx == IF var[1] > 0 THEN var ELSE floor_vx
        px == FDiv(FInt(1), vx)
    IN  [s EXCEPT !.attrs = @ \cup PriorAttrs,
                  !._prior_means = <<mx>>,
                  !.prior_means = <<mx>>,
                  !.prior_weights = alpha,
                  !._prior_scale = <<px>>,
                  !.prior_scale = <<px>>,
                  !._prior_dof = dim + 2,
                  !.prior_dof = <<dim + 2>>,
                  !._prior_shrinkage = small,
                  !.prior_shrinkage = <<small>>,
                  !._dets_ = detsh(px),
                  !._dets = <<detsh(px)>>,
                  !._inv_prior_scale = <<FDiv(FInt(1), px)>>,
                  !.prior_dens = None]

\* the body of MixedIMM.set_constant_densities
MixedIMM_set_constant_densities(s, null_dens, prior_dens) ==
    [s EXCEPT !.attrs = @ \cup {"null_dens", "prior_dens"},
              !.null_dens = null_dens,
              !.prior_dens = prior_dens]

\* IMM.set_constant_densities is declared without self: a call through an
\* instance binds the instance to prior_dens, so prior_dens=c is a second value
\* for the same parameter and the call raises TypeError before its body runs
IMM_set_constant_densities(s, prior_dens) == [err |-> "TypeError", self |-> s]

\* likelihood_under_the_prior without the test of prior_dens
likelihood_under_the_prior_computed(s, x) ==
    IF ~(PriorAttrs \subseteq s.attrs)
    THEN [err |-> "AttributeError", val |-> <<>>, self |-> s]
    ELSE LET tau == FDiv(s._prior_shrinkage, FAdd(FInt(1), s._prior_shrinkage))
             ib == FDiv(FInt(1), s._prior_scale[1])
             d(i) == FSub(s._prior_means[1], FInt(x[i]))
         IN  [err |-> "",
              val |-> [i \in 1..Len(x) |->
                         [kind |-> "student", a |-> s._prior_dof, tau |-> tau,
                          ldb |-> detsh(s._prior_scale[1]),
                          det |-> detsh(FAdd(ib, FMul(tau, FMul(d(i), d(i)))))]],
              self |-> s]

\* likelihood_under_the_prior with tau /= (1+tau) dividing the attribute
\* self._prior_shrinkage itself, as it would an array
likelihood_under_the_prior_inplace(s, x) ==
    IF "prior_dens" \notin s.attrs
    THEN [err |-> "AttributeError", val |-> <<>>, self |-> s]
    ELSE IF s.prior_dens # None
    THEN [err |-> "", val |-> [i \in 1..Len(x) |->
                                  [kind |-> "const", v |-> s.prior_dens.v]],
          self |-> s]
    ELSE IF "_prior_dof" \notin s.attrs
    THEN [err |-> "AttributeError", val |-> <<>>, self |-> s]
    ELSE LET tau == FDiv(s._prior_shrinkage, FAdd(FInt(1), s._prior_shrinkage))
             ib == FDiv(FInt(1), s._prior_scale[1])
             d(i) == FSub(s._prior_means[1], FInt(x[i]))
         IN  [err |-> "",
              val |-> [i \in 1..Len(x) |->
                         [kind |-> "student", a |-> s._prior_dof, tau |-> tau,
                          ldb |-> detsh(s._prior_scale[1]),
                          det |-> detsh(FAdd(ib, FMul(tau, FMul(d(i), d(i)))))]],
              self |-> [s EXCEPT !._prior_shrinkage = tau]]

\* IMM.likelihood_under_the_prior: one density per row of x, and the model
\* object as the call leaves it (tau is a float: tau /= (1+tau) rebinds the
\* local name, and nothing is assigned to an attribute)
likelihood_under_the_prior(s, x) ==
    IF "prior_dens" \notin s.attrs
    THEN [err |-> "AttributeError", val |-> <<>>, self |-> s]
    ELSE IF s.prior_dens # None
    THEN [err |-> "", val |-> [i \in 1..Len(x) |->
                                  [kind |-> "const", v |-> s.prior_dens.v]],
          self |-> s]
    ELSE IF "_prior_dof" \notin s.attrs
    THEN [err |-> "AttributeError", val |-> <<>>, self |-> s]
    ELSE LET a == s._prior_dof
             tau == FDiv(s._prior_shrinkage, FAdd(FInt(1), s._prior_shrinkage))
             m == s._prior_means[1]
             b == s._prior_scale
             ib == FDiv(FInt(1), b[1])
             ldb == detsh(b[1])
             d(i) == FSub(m, FInt(x[i]))
         IN  [err |-> "",
              val |-> [i \in 1..Len(x) |->
                         [kind |-> "student", a |-> a, tau |-> tau, ldb |-> ldb,
                          det |-> detsh(FAdd(ib, FMul(tau, FMul(d(i), d(i)))))]],
              self |-> s]

\* BGMM.unweighted_likelihood: one Gaussian density per row and component
unweighted_likelihood(s, n) ==
    [i \in 1..n |-> [j \in 1..s.k |-> [kind |-> "gauss", comp |-> j - 1]]]

\* IMM.likelihood: the densities of each row, each with its weight as coef
likelihood(s, plike) ==
    LET n == Len(plike)
        dens == IF s.k > 0
                THEN [i \in 1..n |-> unweighted_likelihood(s, n)[i] \o <<plike[i]>>]
                ELSE [i \in 1..n |-> <<plike[i]>>]
        w(j) == IF Len(s.weights) = 1 THEN s.weights[1] ELSE s.weights[j]
    IN  [i \in 1..n |->
            [j \in 1..Len(dens[i]) |-> [dens |-> dens[i][j], coef |-> w(j)]]]

\* an entry of a likelihood matrix is a positive number
Positive(e) ==
    /\ e.coef[1] > 0
    /\ (e.dens.kind = "const" => e.dens.v > 0)

\* BGMM.sample_indicator: per row, the index of a column drawn in proportion to
\* the row's entries; every column holding a positive entry can be drawn
BGMM_sample_indicator(like) ==
    IF Len(like) = 0 THEN {<<>>}
    ELSE {d \in [1..Len(like) -> 0..(Len(like[1]) - 1)] :
             \A i \in 1..Len(like) : Positive(like[i][d[i] + 1])}

\* newlabels without the np.arange: every new draw keeps the label k
newlabels_shared(z, k) == z

\* z[z==self.k] = self.k + np.arange(np.sum(z==self.k))
newlabels(z, k) ==
    [i \in 1..Len(z) |->
        IF z[i] = k THEN k + Cardinality({j \in 1..(i - 1) : z[j] = k}) ELSE z[i]]

\* IMM.sample_indicator, d being the draw of BGMM.sample_indicator
IMM_sample_indicator(s, d) == newlabels(d, s.k)

\* conditional_like with the null column stacked after the others
conditional_like_null_last(s, like, null_class_proba) ==
    [i \in 1..Len(like) |->
        [j \in 1..Len(like[i]) |->
              [dens |-> like[i][j].dens,
               coef |-> FMul(FSub(FInt(1), null_class_proba[i]), like[i][j].coef)]]
        \o <<[dens |-> [kind |-> "const", v |-> s.null_dens.v],
              coef |-> null_class_proba[i]]>>]

\* the matrix MixedIMM.sample_indicator hands to BGMM.sample_indicator
conditional_like(s, like, null_class_proba) ==
    [i \in 1..Len(like) |->
        <<[dens |-> [kind |-> "const", v |-> s.null_dens.v],
           coef |-> null_class_proba[i]]>>
        \o [j \in 1..Len(like[i]) |->
              [dens |-> like[i][j].dens,
               coef |-> FMul(FSub(FInt(1), null_class_proba[i]), like[i][j].coef)]]]

\* MixedIMM.sample_indicator without the shift by one of the drawn column
MixedIMM_sample_indicator_unshifted(s, d) == newlabels(d, s.k)

\* MixedIMM.sample_indicator, d being the draw of BGMM.sample_indicator
MixedIMM_sample_indicator(s, d) == newlabels([i \in 1..Len(d) |-> d[i] - 1], s.k)

\* BGMM.pop: the number of points of each of the k components
pop(s, z) ==
    [j \in 1..s.k |-> Cardinality({i \in 1..Len(z) : z[i] = j - 1})]

\* update_weights without the slot of the new component
update_weights_noslot(s, z) ==
    LET hist == pop(s, z)
        w == [j \in 1..Len(hist) |-> FAdd(FInt(hist[j]), s.prior_weights)]
        total == FSum(w)
    IN  [s EXCEPT !.weights = [j \in 1..Len(w) |-> FDiv(w[j], total)]]

\* IMM.update_weights
update_weights(s, z) ==
    LET hist == pop(s, z) \o <<0>>
        w == [j \in 1..Len(hist) |-> FAdd(FInt(hist[j]), s.prior_weights)]
        total == FSum(w)
    IN  [s EXCEPT !.weights = [j \in 1..Len(w) |-> FDiv(w[j], total)]]

\* BGMM.update: new weights, then means and precisions drawn from the posterior
\* of each component (held as the number of points the draw is conditioned on)
BGMM_update(s, z) ==
    LET s1 == update_weights(s, z)
    IN  [s1 EXCEPT !.precisions = pop(s, z), !.means = pop(s, z)]

\* IMM.update
update(s, z) ==
    IF ~(PriorAttrs \subseteq s.attrs)
    THEN [err |-> "AttributeError", self |-> s]
    ELSE [err |-> "",
          self |-> BGMM_update(
              [s EXCEPT !.prior_means = RepeatFirst(@, s.k),
                        !.prior_dof = Ones(s._prior_dof, s.k),
                        !.prior_shrinkage = Ones(s._prior_shrinkage, s.k),
                        !._dets = Ones(s._dets_, s.k),
                        !._inv_prior_scale = RepeatFirst(@, s.k),
                        !.means = Ones(0, s.k),
                        !.precisions = Ones(0, s.k),
                        !.attrs = @ \cup {"means", "precisions"}], z)]

\* the loop of IMM.reduce: z[z==k] = i for i, k in enumerate(uz)
RECURSIVE relabel(_, _, _)
relabel(z, uz, i) ==
    IF i > Len(uz) THEN z
    ELSE relabel([p \in 1..Len(z) |-> IF z[p] = uz[i] THEN i - 1 ELSE z[p]],
                 uz, i + 1)

\* reduce with self.k = z.max(), the largest label instead of the count
reduce_max_label(s, z) ==
    LET uz == unique({z[p] : p \in {q \in 1..Len(z) : z[q] > -1}})
        zr == relabel(z, uz, 1)
    IN  IF Len(zr) = 0
        THEN [err |-> "ValueError", z |-> zr, self |-> s]
        ELSE [err |-> "", z |-> zr,
              self |-> [s EXCEPT !.k = SetMax(Range(zr))]]

\* reduce without the mask z>-1: the null label is relabelled like any other
reduce_nulls_relabelled(s, z) ==
    LET zr == relabel(z, unique(Range(z)), 1)
    IN  IF Len(zr) = 0
        THEN [err |-> "ValueError", z |-> zr, self |-> s]
        ELSE [err |-> "", z |-> zr,
              self |-> [s EXCEPT !.k = SetMax(Range(zr)) + 1]]

\* IMM.reduce: z.max() of an empty z raises ValueError before self.k is set
reduce(s, z) ==
    LET uz == unique({z[p] : p \in {q \in 1..Len(z) : z[q] > -1}})
        zr == relabel(z, uz, 1)
    IN  IF Len(zr) = 0
        THEN [err |-> "ValueError", z |-> zr, self |-> s]
        ELSE [err |-> "", z |-> zr,
              self |-> [s EXCEPT !.k = SetMax(Range(zr)) + 1]]

(* ------------------------ cross-validation folds ----------------------- *)
\* n_samples/kfold divides two Python 2 ints: the quotient is floored
int_div(a, b) == a \div b

\* np.ceil of a number that is already whole
np_ceil(v) == v

\* np.argsort(np.random.rand(n_samples)): the permutations of 0..n_samples-1
Perms(n) ==
    {aux \in [1..n -> 0..(n - 1)] :
        \A p, q \in 1..n : p # q => aux[p] # aux[q]}

\* lines 201-205: idx[aux[k*j:min(n_samples, j*(k+1))]] = k for k in range(kmax)
scalar_idx(n_samples, kfold, aux) ==
    LET j == np_ceil(int_div(n_samples, kfold))
        hi(k) == IF n_samples < j * (k + 1) THEN n_samples ELSE j * (k + 1)
        folds(q) == {k \in 0..(kfold - 1) : k * j <= q /\ q < hi(k)}
        at(p) == CHOOSE q \in 0..(n_samples - 1) : aux[q + 1] = p - 1
    IN  [p \in 1..n_samples |->
            IF folds(at(p)) = {} THEN -1 ELSE SetMax(folds(at(p)))]

\* lines 209-213: idx += i*(kfold==k) for i, k in enumerate(uk)
array_idx(kfold) ==
    LET uk == unique(Range(kfold))
    IN  [p \in 1..Len(kfold) |->
            SumSeq([i \in 1..Len(uk) |-> IF kfold[p] = uk[i] THEN i - 1 ELSE 0])]

\* line 214: kmax = uk.max()+1
array_kmax(kfold) == SetMax(Range(kfold)) + 1

\* the values of kfold handed to sample
NoKfold == [kind |-> "None"]

FoldPairs == {<<0, 1>>, <<0, 2>>, <<-1, 0>>}

FoldVectors(n) ==
    {[i \in 1..n |-> IF i = 1 THEN ab[1] ELSE ab[2]] : ab \in FoldPairs}
    \cup {[i \in 1..(n + 1) |-> IF i = 1 THEN 0 ELSE 1]}

KfoldInputs(n) ==
    {NoKfold}
    \cup {[kind |-> "scalar", K |-> K] : K \in 1..n}
    \cup {[kind |-> "array", v |-> v] : v \in FoldVectors(n)}

(* ------------------------------- state --------------------------------- *)
VARIABLES
    self,      \* the model object
    pc,        \* "idle", or the place of the sample call in progress
    call,      \* the call in progress or last finished, with its arguments
    err,       \* the exception the last finished call raised, "" if none
    ret,       \* the value the last finished call returned
    self0,     \* the model object when the call began
    plike,     \* sample: the likelihood of x under the prior
    z,         \* sample: the membership vector
    it,        \* sample: the number of sweeps done
    pproba,    \* MixedIMM.sample: the number of sweeps that drew the null
    idx,       \* cross_validated_update: the fold of each observation
    kmax,      \* cross_validated_update: the bound of the fold loop
    fold,      \* cross_validated_update: the fold loop's k
    held,      \* how often each observation was held out in this sweep
    average_like, \* sample: per entry, the addends of average_like so far
    splike,    \* sample: the likelihood of sampling_points under the prior
    sweep_like, \* sample: like, the value the update of this sweep returned
    slike,     \* cross_validated_update: the held-out likelihood of each row
    drawn,     \* simple_update: its own z, as self.reduce(z) left it
    last,      \* the last call of sample_indicator: draw, k and labels
    arg,       \* reduce: the vector handed to the last direct call
    ncalls,    \* the number of sample calls begun
    nulls      \* per observation, the sweeps whose draw was the null column

vars ==
    <<self, pc, call, err, ret, self0, plike, z, it, pproba, idx, kmax, fold,
      held, average_like, splike, sweep_like, slike, drawn, last, arg, ncalls, nulls>>

frame == <<plike, z, it, pproba, idx, kmax, fold, held>>

sums == <<average_like, splike, sweep_like, slike, drawn>>

NoCall == [op |-> "none"]

NoLast == [d |-> <<>>, ncols |-> 0, k |-> 0, z |-> <<>>]

Init ==
    /\ self \in {IMM_init("IMM"), IMM_init("MixedIMM")}
    /\ pc = "idle"
    /\ call = NoCall
    /\ err = ""
    /\ ret = <<>>
    /\ self0 = self
    /\ plike = <<>>
    /\ z = <<>>
    /\ it = 0
    /\ pproba = <<>>
    /\ idx = <<>>
    /\ kmax = 0
    /\ fold = 0
    /\ held = <<>>
    /\ average_like = <<>>
    /\ splike = <<>>
    /\ sweep_like = <<>>
    /\ slike = <<>>
    /\ drawn = <<>>
    /\ last = NoLast
    /\ arg = <<>>
    /\ ncalls = 0
    /\ nulls = <<>>

\* the call in progress ends: its locals are gone
Finish(e, r) ==
    /\ pc' = "idle"
    /\ err' = e
    /\ ret' = r
    /\ plike' = <<>>
    /\ z' = <<>>
    /\ it' = 0
    /\ pproba' = <<>>
    /\ idx' = <<>>
    /\ kmax' = 0
    /\ fold' = 0
    /\ held' = <<>>
    /\ average_like' = <<>>
    /\ splike' = <<>>
    /\ sweep_like' = <<>>
    /\ slike' = <<>>
    /\ drawn' = <<>>

Raise(e) == Finish(e, <<>>)

(* ---------------------------- configuration ---------------------------- *)
SetPriors ==
    /\ pc = "idle"
    /\ \E x \in PriorInputs :
        /\ call' = [op |-> "set_priors", x |-> x]
        /\ self' = set_priors(self, x)
    /\ self0' = self
    /\ Finish("", <<>>)
    /\ UNCHANGED <<last, arg, ncalls, nulls>>

DensArgs == {None} \cup {Float(c) : c \in DensInputs}

SetConstantDensitiesIMM ==
    /\ pc = "idle"
    /\ self.cls = "IMM"
    /\ \E c \in DensArgs :
        LET r == IMM_set_constant_densities(self, c)
        IN  /\ call' = [op |-> "set_constant_densities", prior_dens |-> c,
                        null_dens |-> None]
            /\ self' = r.self
            /\ Finish(r.err, <<>>)
    /\ self0' = self
    /\ UNCHANGED <<last, arg, ncalls, nulls>>

SetConstantDensitiesMixedIMM ==
    /\ pc = "idle"
    /\ self.cls = "MixedIMM"
    /\ \E g \in DensArgs, c \in DensArgs :
        /\ call' = [op |-> "set_constant_densities", prior_dens |-> c,
                    null_dens |-> g]
        /\ self' = MixedIMM_set_constant_densities(self, g, c)
    /\ self0' = self
    /\ Finish("", <<>>)
    /\ UNCHANGED <<last, arg, ncalls, nulls>>

(* ------------------------------- sample -------------------------------- *)
Zeros(n) == [i \in 1..n |-> 0]

\* like.sum(1), np.sum(like, 1): per row, the sum of its entries
sum1(m) == [i \in 1..Len(m) |-> [kind |-> "sum", terms |-> m[i]]]

\* np.zeros(n) as a vector of sums: every entry is the empty sum
zero_sums(n) == [i \in 1..n |-> [kind |-> "sum", terms |-> <<>>]]

\* average_like = np.zeros(n): no addend yet
acc_zeros(n) == [i \in 1..n |-> <<>>]

\* average_like += v
acc_add(a, v) == [i \in 1..Len(a) |-> Append(a[i], v[i])]

\* average_like /= niter
acc_div(a, niter) == [i \in 1..Len(a) |-> [sum |-> a[i], div |-> niter]]

\* the exception MixedIMM.sample_indicator raises on self.null_dens, "" if none
IndicatorErr(s) ==
    IF s.cls = "IMM" THEN ""
    ELSE IF "null_dens" \notin s.attrs THEN "AttributeError"
    ELSE IF s.null_dens = None THEN "TypeError"
    ELSE ""

\* the outcomes of self.sample_indicator(like[, null_class_proba]): the draw d
\* of BGMM.sample_indicator, its number of columns, self.k and the labels
Width(m) == IF Len(m) = 0 THEN 0 ELSE Len(m[1])

Indicator(s, like, null_class_proba) ==
    IF s.cls = "IMM"
    THEN {[d |-> d, ncols |-> Width(like), k |-> s.k,
           z |-> IMM_sample_indicator(s, d)] :
              d \in BGMM_sample_indicator(like)}
    ELSE LET cl == conditional_like(s, like, null_class_proba)
         IN  {[d |-> d, ncols |-> Width(cl), k |-> s.k,
               z |-> MixedIMM_sample_indicator(s, d)] :
                  d \in BGMM_sample_indicator(cl)}

\* a[test] of an argument IMM does not have
Rows(s, a, I) == IF s.cls = "IMM" THEN <<>> ELSE Take(a, I)

\* sample, lines 112-125 (451-465): the prior likelihood and the init update
sample_begin(s, x, init) ==
    LET lp == likelihood_under_the_prior(s, x)
        up == update([lp.self EXCEPT !.k = 1], Zeros(Len(x)))
    IN  IF lp.err # "" THEN [err |-> lp.err, self |-> lp.self, plike |-> <<>>]
        ELSE IF init THEN [err |-> up.err, self |-> up.self, plike |-> lp.val]
        ELSE [err |-> "", self |-> lp.self, plike |-> lp.val]

\* the data sets handed to the sample of a model
SampleInputs(s) ==
    IF s.cls = "IMM" THEN DataInputs
    ELSE {x \in DataInputs : Len(x) <= MaxNull}

\* sample up to the first draw of the indicators (lines 112-128, 451-468)
Sample ==
    /\ pc = "idle"
    /\ ncalls < MaxCalls
    /\ \E x \in SampleInputs(self), niter \in 1..MaxIter, init \in BOOLEAN :
       \E kfold \in KfoldInputs(Len(x)), sampling_points \in SamplingInputs :
       \E ncp \in IF self.cls = "IMM" THEN {<<>>} ELSE NullProbaInputs(Len(x)) :
          LET b == sample_begin(self, x, init)
              e == IF b.err # "" THEN b.err ELSE IndicatorErr(b.self)
          IN  /\ call' = [op |-> "sample", x |-> x, niter |-> niter,
                          init |-> init, kfold |-> kfold,
                          sampling_points |-> sampling_points,
                          null_class_proba |-> ncp]
              /\ self' = b.self
              /\ IF e # ""
                 THEN Raise(e) /\ UNCHANGED <<last, nulls>>
                 ELSE \E r \in Indicator(b.self, likelihood(b.self, b.plike), ncp) :
                        /\ last' = r
                        /\ z' = r.z
                        /\ plike' = b.plike
                        /\ it' = 0
                        /\ pproba' = IF self.cls = "IMM" THEN <<>>
                                     ELSE Zeros(Len(x))
                        /\ nulls' = IF self.cls = "IMM" THEN <<>>
                                    ELSE Zeros(Len(x))
                        /\ pc' = "loop"
                        /\ err' = ""
                        /\ ret' = <<>>
                        /\ average_like' =
                               IF sampling_points = None
                               THEN acc_zeros(Len(x))
                               ELSE acc_zeros(Len(sampling_points))
                        /\ splike' =
                               IF sampling_points = None THEN <<>>
                               ELSE likelihood_under_the_prior(
                                        self, sampling_points).val
                        /\ UNCHANGED <<idx, kmax, fold, held, sweep_like, slike, drawn>>
    /\ self0' = self
    /\ ncalls' = ncalls + 1
    /\ UNCHANGED arg

\* simple_update with self.update(x, z) called before self.reduce(z)
simple_update_update_first(s, r) ==
    LET up == update(s, r.z)
        red == reduce(up.self, r.z)
    IN  IF up.err # "" THEN [err |-> up.err, self |-> up.self, z |-> r.z]
        ELSE [err |-> red.err, self |-> red.self, z |-> red.z]

\* simple_update (lines 164-173, 512-521), r being the outcome of the draw
simple_update(s, r) ==
    LET red == reduce(s, r.z)
        up == update(red.self, red.z)
    IN  IF red.err # "" THEN [err |-> red.err, self |-> red.self, z |-> red.z]
        ELSE [err |-> up.err, self |-> up.self, z |-> red.z]

SimpleUpdate ==
    /\ pc = "loop"
    /\ it < call.niter
    /\ call.kfold = NoKfold
    /\ \E r \in Indicator(self, likelihood(self, plike), call.null_class_proba) :
        LET u == simple_update(self, r)
        IN  /\ last' = r
            /\ self' = u.self
            /\ IF u.err # "" THEN Raise(u.err)
               ELSE /\ pc' = "post"
                    /\ sweep_like' = sum1(likelihood(self, plike))
                    /\ drawn' = u.z
                    /\ UNCHANGED <<err, ret, frame, average_like, splike, slike>>
    /\ UNCHANGED <<call, self0, arg, ncalls, nulls>>

\* cross_validated_update up to the fold loop (lines 196-214, 547-565)
CVStart ==
    /\ pc = "loop"
    /\ it < call.niter
    /\ call.kfold # NoKfold
    /\ LET n_samples == Len(call.x)
           go == /\ pc' = "folds"
                 /\ fold' = 0
                 /\ held' = Zeros(n_samples)
                 /\ slike' = zero_sums(n_samples)
                 /\ UNCHANGED <<err, ret, plike, z, it, pproba, average_like,
                                splike, sweep_like, drawn>>
       IN  IF call.kfold.kind = "scalar"
           THEN \E aux \in Perms(n_samples) :
                   /\ idx' = scalar_idx(n_samples, call.kfold.K, aux)
                   /\ kmax' = call.kfold.K
                   /\ go
           ELSE IF Len(call.kfold.v) # n_samples
           THEN Raise("ValueError")
           ELSE /\ idx' = array_idx(call.kfold.v)
                /\ kmax' = array_kmax(call.kfold.v)
                /\ go
    /\ UNCHANGED <<self, call, self0, last, arg, ncalls, nulls>>

\* the fold loop with the held-out rows drawn before reduce and update, from
\* the parameters the previous pass left
CVFold_draw_first ==
    /\ pc = "folds"
    /\ fold < kmax
    /\ LET n_samples == Len(call.x)
           test == {p \in 1..n_samples : idx[p] = fold}
           train == (1..n_samples) \ test
           red == reduce(self, Take(z, train))
           z1 == Put(z, train, red.z)
           up == update(red.self, Take(z1, train))
       IN  IF red.err # ""
           THEN self' = red.self /\ Raise(red.err) /\ UNCHANGED last
           ELSE IF up.err # ""
           THEN self' = up.self /\ Raise(up.err) /\ UNCHANGED last
           ELSE \E r \in Indicator(self,
                                   likelihood(self, Take(plike, test)),
                                   Rows(self, call.null_class_proba, test)) :
                   /\ self' = up.self
                   /\ slike' = Put(slike, test,
                                   sum1(likelihood(self, Take(plike, test))))
                   /\ UNCHANGED <<average_like, splike, sweep_like, drawn>>
                   /\ z' = Put(z1, test, r.z)
                   /\ last' = r
                   /\ fold' = fold + 1
                   /\ held' = [p \in 1..n_samples |->
                                  held[p] + IF p \in test THEN 1 ELSE 0]
                   /\ UNCHANGED <<pc, err, ret, plike, it, pproba, idx, kmax>>
    /\ UNCHANGED <<call, self0, arg, ncalls, nulls>>

\* one pass of the fold loop (lines 217-232, 568-584)
CVFold ==
    /\ pc = "folds"
    /\ fold < kmax
    /\ LET n_samples == Len(call.x)
           test == {p \in 1..n_samples : idx[p] = fold}
           train == (1..n_samples) \ test
           red == reduce(self, Take(z, train))
           z1 == Put(z, train, red.z)
           up == update(red.self, Take(z1, train))
       IN  IF red.err # ""
           THEN self' = red.self /\ Raise(red.err) /\ UNCHANGED last
           ELSE IF up.err # ""
           THEN self' = up.self /\ Raise(up.err) /\ UNCHANGED last
           ELSE \E r \in Indicator(up.self,
                                   likelihood(up.self, Take(plike, test)),
                                   Rows(self, call.null_class_proba, test)) :
                   /\ self' = up.self
                   /\ slike' = Put(slike, test,
                                   sum1(likelihood(up.self, Take(plike, test))))
                   /\ UNCHANGED <<average_like, splike, sweep_like, drawn>>
                   /\ z' = Put(z1, test, r.z)
                   /\ last' = r
                   /\ fold' = fold + 1
                   /\ held' = [p \in 1..n_samples |->
                                  held[p] + IF p \in test THEN 1 ELSE 0]
                   /\ UNCHANGED <<pc, err, ret, plike, it, pproba, idx, kmax>>
    /\ UNCHANGED <<call, self0, arg, ncalls, nulls>>

\* the fold loop ends and cross_validated_update returns (lines 235, 587)
CVEnd ==
    /\ pc = "folds"
    /\ fold >= kmax
    /\ pc' = "post"
    /\ idx' = <<>>
    /\ kmax' = 0
    /\ fold' = 0
    /\ held' = <<>>
    /\ sweep_like' = slike
    /\ slike' = <<>>
    /\ UNCHANGED <<self, call, err, ret, self0, plike, z, it, pproba, last, arg, ncalls, nulls>>
    /\ UNCHANGED <<average_like, splike, drawn>>

\* the rest of the sweep (lines 136-140, 477-485)
SweepEnd ==
    /\ pc = "post"
    /\ IF self.cls = "IMM"
       THEN UNCHANGED <<z, pproba, last, nulls>>
       ELSE \E r \in Indicator(self, likelihood(self, plike),
                               call.null_class_proba) :
               /\ last' = r
               /\ z' = r.z
               /\ pproba' = [i \in 1..Len(pproba) |->
                                pproba[i] + IF r.z[i] = -1 THEN 1 ELSE 0]
               /\ nulls' = [i \in 1..Len(nulls) |->
                               nulls[i] + IF r.d[i] = 0 THEN 1 ELSE 0]
    /\ average_like' =
           IF call.sampling_points = None
           THEN acc_add(average_like, sweep_like)
           ELSE acc_add(average_like, sum1(likelihood(self, splike)))
    /\ it' = it + 1
    /\ pc' = "loop"
    /\ UNCHANGED <<self, call, err, ret, self0, plike, idx, kmax, fold, held, arg, ncalls>>
    /\ UNCHANGED <<splike, sweep_like, slike, drawn>>

\* sample returns (lines 142-143, 487-489)
Return ==
    /\ pc = "loop"
    /\ it = call.niter
    /\ Finish("", [average_like |-> acc_div(average_like, call.niter),
                    pproba |-> [i \in 1..Len(pproba) |->
                                  Frac(pproba[i], call.niter)]])
    /\ UNCHANGED <<self, call, self0, last, arg, ncalls, nulls>>

Next ==
    \/ SetPriors
    \/ SetConstantDensitiesIMM
    \/ SetConstantDensitiesMixedIMM
    \/ Sample
    \/ SimpleUpdate
    \/ CVStart
    \/ CVFold
    \/ CVEnd
    \/ SweepEnd
    \/ Return

Spec == Init /\ [][Next]_vars

(* --------------------------- reduce, called alone ---------------------- *)
\* the membership vectors handed to reduce: entries >= -1
ZInputs == UNION {[1..n -> -1..MaxLabel] : n \in 0..MaxN}

\* reduce(v) called on the model with a vector v
Reduce ==
    /\ pc = "idle"
    /\ \E v \in ZInputs :
        LET r == reduce(self, v)
        IN  /\ call' = [op |-> "reduce"]
            /\ arg' = v
            /\ self' = r.self
            /\ z' = r.z
            /\ err' = r.err
    /\ self0' = self
    /\ UNCHANGED <<pc, ret, plike, it, pproba, idx, kmax, fold, held, last, ncalls, nulls>>
    /\ UNCHANGED sums

\* reduce called again on the vector the last call returned
ReduceAgain ==
    /\ pc = "idle"
    /\ call = [op |-> "reduce"]
    /\ err = ""
    /\ LET r == reduce(self, z)
       IN  /\ arg' = z
           /\ self' = r.self
           /\ z' = r.z
           /\ err' = r.err
    /\ self0' = self
    /\ UNCHANGED <<pc, call, ret, plike, it, pproba, idx, kmax, fold, held, last, ncalls, nulls>>
    /\ UNCHANGED sums

NextReduce == Reduce \/ ReduceAgain

SpecReduce == Init /\ [][NextReduce]_vars

(* -------------------- configuration calls, called alone ---------------- *)
\* likelihood_under_the_prior(x) called on the model
LikelihoodUnderThePrior ==
    /\ pc = "idle"
    /\ \E x \in DataInputs :
        LET r == likelihood_under_the_prior(self, x)
        IN  /\ call' = [op |-> "likelihood_under_the_prior", x |-> x]
            /\ self' = r.self
            /\ Finish(r.err, r.val)
    /\ self0' = self
    /\ UNCHANGED <<last, arg, ncalls, nulls>>

NextPrior ==
    \/ SetPriors
    \/ SetConstantDensitiesIMM
    \/ SetConstantDensitiesMixedIMM
    \/ LikelihoodUnderThePrior

SpecPrior == Init /\ [][NextPrior]_vars

(* ------------------------------ properties ----------------------------- *)
\* the model was given its priors and, for MixedIMM, a null density
Configured(s) == PriorAttrs \subseteq s.attrs /\ IndicatorErr(s) = ""

NonNull(v) == {v[p] : p \in {q \in 1..Len(v) : v[q] > -1}}

\* C1: after reduce(z), for every z with entries >= -1, the call has returned,
\* the non-null labels of z are exactly 0..k-1 and self.k is the number of
\* distinct non-null labels z held before the call (0 for an empty or all-null z)
C1_reduce_contiguous ==
    call.op = "reduce" =>
        /\ err = ""
        /\ NonNull(z) = 0..(self.k - 1)
        /\ self.k = Cardinality(NonNull(arg))

\* the rows of the last sample_indicator call that drew the new component
NewDraws == {i \in 1..Len(last.d) : last.d[i] = last.ncols - 1}

\* C2: in one call of sample_indicator the points that drew the new component
\* get pairwise distinct labels, namely k, k+1, ..., k+m-1, none below k
C2_new_labels_distinct ==
    /\ \A i \in NewDraws : last.z[i] >= last.k
    /\ \A i, j \in NewDraws : i # j => last.z[i] # last.z[j]
    /\ {last.z[i] : i \in NewDraws} =
           last.k..(last.k + Cardinality(NewDraws) - 1)

\* two points drew the new component of a model that already has components
C2_witness == Cardinality(NewDraws) >= 2 /\ last.k >= 1

SweepDone == pc = "loop" /\ it >= 1

\* C3 as stated: at the end of every sweep the weights sum to 1 and their
\* number is k+1 for IMM and k+2 for MixedIMM
C3_weights_null_slot ==
    SweepDone =>
        /\ FSum(self.weights) = FInt(1)
        /\ Len(self.weights) = IF self.cls = "IMM" THEN self.k + 1 ELSE self.k + 2

\* C3 amended: at the end of every sweep the weights sum to 1 and their number
\* is k+1, for IMM and for MixedIMM alike
C3_weights ==
    SweepDone =>
        /\ FSum(self.weights) = FInt(1)
        /\ Len(self.weights) = self.k + 1

\* a cross-validated sweep of a MixedIMM ended with two components
C3_witness ==
    /\ SweepDone
    /\ self.cls = "MixedIMM"
    /\ call.kfold # NoKfold
    /\ self.k >= 2

\* C4: a sample call with a scalar kfold K = 1 or K = N on a configured model
\* ends without raising
C4_kfold_edge_cases ==
    (/\ pc = "idle"
     /\ call.op = "sample"
     /\ call.kfold.kind = "scalar"
     /\ call.kfold.K \in {1, Len(call.x)}
     /\ Configured(self0))
    => err = ""

\* C5: a fold vector whose size differs from the number of observations makes
\* sample raise ValueError with k, weights, means and precisions as they were
\* before the call, for every value of init
C5_no_update_before_error ==
    (/\ pc = "idle"
     /\ call.op = "sample"
     /\ call.kfold.kind = "array"
     /\ Len(call.kfold.v) # Len(call.x)
     /\ Configured(self0))
    => /\ err = "ValueError"
       /\ self.k = self0.k
       /\ self.weights = self0.weights
       /\ self.means = self0.means
       /\ self.precisions = self0.precisions

\* C6: with prior_dens a constant c, likelihood_under_the_prior(x) has one
\* entry per row of x and every entry is c
C6_constant_prior ==
    (pc # "idle" /\ self.prior_dens # None) =>
        /\ Len(plike) = Len(call.x)
        /\ \A i \in 1..Len(plike) :
               plike[i] = [kind |-> "const", v |-> self.prior_dens.v]

\* the constant was returned for data of unequal values, priors being set
C6_witness ==
    /\ pc = "loop"
    /\ self.prior_dens # None
    /\ PriorAttrs \subseteq self.attrs
    /\ Len(plike) >= 2
    /\ call.x[1] # call.x[2]

\* C7: set_constant_densities with constants ends without error, prior_dens
\* being the constant given, and on a MixedIMM null_dens too
C7_set_constant_densities ==
    (/\ pc = "idle"
     /\ call.op = "set_constant_densities"
     /\ call.prior_dens # None
     /\ call.null_dens # None \/ self.cls = "IMM")
    => /\ err = ""
       /\ self.prior_dens = call.prior_dens
       /\ (self.cls = "MixedIMM" => self.null_dens = call.null_dens)

CeilDiv(a, b) == (a + b - 1) \div b

\* C8: a scalar kfold K in 1..N gives every observation one fold in 0..K-1,
\* the folds being blocks of at most ceil(N/K) observations
C8_scalar_folds_partition ==
    (pc = "folds" /\ call.kfold.kind = "scalar") =>
        /\ \A p \in 1..Len(idx) : idx[p] \in 0..(call.kfold.K - 1)
        /\ \A k \in 0..(call.kfold.K - 1) :
               Cardinality({p \in 1..Len(idx) : idx[p] = k})
                   <= CeilDiv(Len(idx), call.kfold.K)

\* C9: with a fold vector of the right length the fold loop has run once per
\* distinct label when it ends, and every observation was held out once
C9_folds_are_labels ==
    (pc = "folds" /\ call.kfold.kind = "array" /\ fold >= kmax) =>
        /\ fold = Cardinality(Range(call.kfold.v))
        /\ \A p \in 1..Len(held) : held[p] = 1

\* C10: MixedIMM.sample returns pproba[i] = (the number of the niter sweeps
\* whose draw gave i the null) / niter, a number of [0, 1]
C10_pproba ==
    (/\ pc = "idle"
     /\ call.op = "sample"
     /\ err = ""
     /\ self.cls = "MixedIMM")
    => /\ Len(ret.pproba) = Len(call.x)
       /\ \A i \in 1..Len(ret.pproba) :
            /\ ret.pproba[i] = Frac(nulls[i], call.niter)
            /\ ~FLess(ret.pproba[i], FInt(0))
            /\ ~FLess(FInt(1), ret.pproba[i])

\* a point was null in one sweep of two
C10_witness ==
    /\ pc = "idle"
    /\ call.op = "sample"
    /\ err = ""
    /\ self.cls = "MixedIMM"
    /\ \E i \in 1..Len(ret.pproba) : ret.pproba[i] = <<1, 2>>

\* C12: reduce leaves the nulls alone: a position holds -1 after the call if
\* and only if it held -1 before, and when the call returns k is the number of
\* distinct labels other than -1
C12_reduce_keeps_nulls ==
    call.op = "reduce" =>
        /\ Len(z) = Len(arg)
        /\ \A p \in 1..Len(arg) : (arg[p] = -1) <=> (z[p] = -1)
        /\ (err = "" => self.k = Cardinality(Range(arg) \ {-1}))

\* a vector with a null and a label that reduce changed
C12_witness ==
    /\ call.op = "reduce"
    /\ err = ""
    /\ \E p, q \in 1..Len(arg) : arg[p] = -1 /\ arg[q] > 0 /\ z[q] # arg[q]

\* C19: reduce keeps equality and order of the non-null labels, and reduce of
\* the vector it returned returns the same vector and the same k
C19_reduce_order_idempotent ==
    (call.op = "reduce" /\ err = "") =>
        /\ \A p, q \in 1..Len(arg) :
              (arg[p] > -1 /\ arg[q] > -1) =>
                  /\ (z[p] = z[q]) <=> (arg[p] = arg[q])
                  /\ (arg[p] < arg[q]) => (z[p] < z[q])
        /\ reduce(self, z).err = ""
        /\ reduce(self, z).z = z
        /\ reduce(self, z).self.k = self.k

\* reduce was applied to a reduced vector of two labels and a null
C19_witness ==
    /\ call.op = "reduce"
    /\ err = ""
    /\ arg = z
    /\ self0.k = self.k
    /\ self.k >= 2
    /\ -1 \in Range(z)

\* C13: in every call of MixedIMM.sample_indicator the matrix drawn from has
\* k+2 columns; column 0 is the null column and gives the label -1 (the only
\* label of a point whose null probability is 1, never the label of a point
\* whose null probability is 0), column j of 1..k gives the label j-1 and
\* column k+1 gives a label >= k
C13_mixed_indicator_columns ==
    (self.cls = "MixedIMM" /\ call.op = "sample" /\ Len(last.d) > 0) =>
        /\ last.ncols = last.k + 2
        /\ \A i \in 1..Len(last.d) :
              /\ last.d[i] \in 0..(last.k + 1)
              /\ (last.d[i] = 0) => (last.z[i] = -1)
              /\ (last.d[i] \in 1..last.k) => (last.z[i] = last.d[i] - 1)
              /\ (last.d[i] = last.k + 1) => (last.z[i] >= last.k)
              /\ (last.z[i] = -1) => (call.null_class_proba[1] # FInt(0))
              /\ (call.null_class_proba[1] = FInt(1)) => (last.z[i] = -1)

\* one call gave a point the null and another point an existing component
C13_witness ==
    /\ self.cls = "MixedIMM"
    /\ call.op = "sample"
    /\ last.k >= 1
    /\ \E i, j \in 1..Len(last.d) : last.d[i] = 0 /\ last.d[j] \in 1..last.k

\* sample was called without init on an IMM that has priors and no component
FreshSample ==
    /\ self.cls = "IMM"
    /\ call.op = "sample"
    /\ ~call.init
    /\ self0.k = 0
    /\ PriorAttrs \subseteq self0.attrs

\* the draw of a model without components: one column, every row drew it and
\* the rows have the labels 0..N-1
AllNew(r, n) ==
    /\ r.ncols = 1
    /\ r.k = 0
    /\ \A i \in 1..Len(r.d) : r.d[i] = 0
    /\ \A i, j \in 1..Len(r.z) : i # j => r.z[i] # r.z[j]
    /\ Len(r.z) = n

\* C14 as stated: with k = 0 the likelihood is the prior column alone, the N
\* points draw N distinct new labels, and the first reduce of the call, in a
\* simple or in a cross-validated sweep, sets k = N
C14_first_reduce_sets_N ==
    FreshSample =>
        /\ (pc = "loop" /\ it = 0) => AllNew(last, Len(call.x))
        /\ (pc = "post" /\ it = 0 /\ call.kfold = NoKfold) =>
               (AllNew(last, Len(call.x)) /\ self.k = Len(call.x))
        /\ (pc = "folds" /\ it = 0 /\ fold = 1) => self.k = Len(call.x)

\* C14 amended: with k = 0 the likelihood is the prior column alone and the N
\* points draw N distinct new labels; the first reduce sets k = N in a sweep
\* without cross-validation, and k = the number of training rows of the first
\* fold in a cross-validated sweep
C14_first_reduce ==
    FreshSample =>
        /\ (pc = "loop" /\ it = 0) => AllNew(last, Len(call.x))
        /\ (pc = "post" /\ it = 0 /\ call.kfold = NoKfold) =>
               (AllNew(last, Len(call.x)) /\ self.k = Len(call.x))
        /\ (pc = "folds" /\ it = 0 /\ fold = 1) =>
               self.k = Cardinality({p \in 1..Len(idx) : idx[p] # 0})

\* the first simple sweep of three points ended with three components
C14_witness ==
    /\ FreshSample
    /\ pc = "post"
    /\ it = 0
    /\ call.kfold = NoKfold
    /\ Len(call.x) = MaxN
    /\ self.k = MaxN

\* the points at which the returned density is evaluated
DensityPoints == IF call.sampling_points = None THEN call.x ELSE call.sampling_points

\* a is the row sum of a weighted likelihood matrix at a point of prior density
\* p: at least the prior column, which is the last
RowSum(a, p) ==
    /\ a.kind = "sum"
    /\ Len(a.terms) >= 1
    /\ a.terms[Len(a.terms)].dens = p

\* C11: sample returns average_like with one entry per observation, or per
\* sampling point when they are given; every entry is the sum, divided by niter,
\* of exactly niter addends, one per sweep, each the row sum of the weighted
\* likelihood at that point, the last being the mixture density of the model
\* the call leaves when sampling points are given
C11_average_like ==
    (pc = "idle" /\ call.op = "sample" /\ err = "") =>
        LET prior == likelihood_under_the_prior(self, DensityPoints).val
        IN  /\ Len(ret.average_like) = Len(DensityPoints)
            /\ \A i \in 1..Len(ret.average_like) :
                  /\ ret.average_like[i].div = call.niter
                  /\ Len(ret.average_like[i].sum) = call.niter
                  /\ \A t \in 1..call.niter :
                        RowSum(ret.average_like[i].sum[t], prior[i])
                  /\ (call.sampling_points # None) =>
                        ret.average_like[i].sum[call.niter]
                            = sum1(likelihood(self, prior))[i]

\* the rows the fold that just ended held out, and the rows it trained on
TestRows == {p \in 1..Len(idx) : idx[p] = fold - 1}

TrainRows == (1..Len(idx)) \ TestRows

\* C15: when a fold of cross_validated_update ends, the indicators it drew are
\* those of its held-out rows, drawn with the k that reduce computed from the
\* training rows, and k, the weights, the means and the precisions of the model
\* are those of the update on the training rows alone
C15_fold_order ==
    (pc = "folds" /\ fold >= 1) =>
        LET zt == Take(z, TrainRows)
        IN  /\ Len(last.d) = Cardinality(TestRows)
            /\ last.z = Take(z, TestRows)
            /\ last.k = self.k
            /\ self.k = Cardinality(NonNull(zt))
            /\ self.means = pop(self, zt)
            /\ self.precisions = pop(self, zt)
            /\ self.weights = update_weights(self, zt).weights
            /\ SumSeq(self.means) + Cardinality({p \in TrainRows : z[p] = -1})
                   = Cardinality(TrainRows)

\* a second fold ended: one row held out, two components fit on the others
C15_witness ==
    /\ pc = "folds"
    /\ fold >= 2
    /\ Cardinality(TestRows) = 1
    /\ self.k >= 2

\* C16: without cross-validation every sweep computes the likelihood of all
\* the observations under the model the sweep began with, draws one label per
\* observation from it, reduces the drawn vector and updates the model on it:
\* after the sweep k is the number of distinct non-null labels drawn, the
\* non-null labels of the reduced vector are 0..k-1, and the weights, means and
\* precisions are those of the update on that vector; a call that returns has
\* made exactly niter sweeps
C16_simple_sweeps ==
    (call.op = "sample" /\ call.kfold = NoKfold) =>
        /\ (pc = "post") =>
              /\ it < call.niter
              /\ Len(sweep_like) = Len(call.x)
              /\ \A i \in 1..Len(sweep_like) :
                     Len(sweep_like[i].terms) = last.k + 1
              /\ Len(last.z) = Len(call.x)
              /\ Len(drawn) = Len(call.x)
              /\ self.k = Cardinality(NonNull(last.z))
              /\ NonNull(drawn) = 0..(self.k - 1)
              /\ \A i \in 1..Len(drawn) : (drawn[i] = -1) <=> (last.z[i] = -1)
              /\ self.means = pop(self, drawn)
              /\ self.precisions = pop(self, drawn)
              /\ self.weights = update_weights(self, drawn).weights
        /\ (pc = "loop") => it <= call.niter
        /\ (pc = "idle" /\ err = "") =>
              \A i \in 1..Len(ret.average_like) :
                  Len(ret.average_like[i].sum) = call.niter

\* the second sweep drew labels with a gap, which reduce closed
C16_witness ==
    /\ call.op = "sample"
    /\ call.kfold = NoKfold
    /\ pc = "post"
    /\ it = 1
    /\ self.k >= 2
    /\ drawn # last.z

\* the sample call in progress has changed the model object: the last change
\* was made by update, which ends the init block, simple_update and each fold
Updated == pc # "idle" /\ self # self0

\* C17: after every update prior_means, prior_dof, prior_shrinkage, _dets and
\* _inv_prior_scale have k entries each, every entry being the base prior
C17_expanded_hyperparameters ==
    Updated =>
        /\ Len(self.prior_means) = self.k
        /\ Len(self.prior_dof) = self.k
        /\ Len(self.prior_shrinkage) = self.k
        /\ Len(self._dets) = self.k
        /\ Len(self._inv_prior_scale) = self.k
        /\ \A j \in 1..self.k :
              /\ self.prior_means[j] = self._prior_means[1]
              /\ self.prior_dof[j] = self._prior_dof
              /\ self.prior_shrinkage[j] = self._prior_shrinkage
              /\ self._dets[j] = self._dets_
              /\ self._inv_prior_scale[j] = FDiv(FInt(1), self._prior_scale[1])

\* C18: a call of likelihood_under_the_prior leaves the model object as it
\* was: _prior_shrinkage, _prior_dof, _prior_means, _prior_scale, prior_dens, k,
\* weights and every other attribute; so the same call made again returns the
\* value this one returned
C18_prior_likelihood_pure ==
    (call.op = "likelihood_under_the_prior") =>
        /\ self = self0
        /\ likelihood_under_the_prior(self, call.x).err = err
        /\ likelihood_under_the_prior(self, call.x).val = ret

\* the Student density was computed from the hyperparameters for two points
C18_witness ==
    /\ call.op = "likelihood_under_the_prior"
    /\ err = ""
    /\ Len(call.x) >= 2
    /\ self.prior_dens = None
    /\ ret[1].kind = "student"
    /\ ret[1].tau = FDiv(self._prior_shrinkage, FAdd(FInt(1), self._prior_shrinkage))

\* after set_priors prior_dens is None and null_dens is what it was; and
\* likelihood_under_the_prior returns a constant exactly when prior_dens is one
DensAfterCall ==
    /\ (call.op = "set_priors") =>
          /\ "prior_dens" \in self.attrs
          /\ self.prior_dens = None
          /\ self.null_dens = self0.null_dens
          /\ ("null_dens" \in self.attrs) <=> ("null_dens" \in self0.attrs)
    /\ (call.op = "likelihood_under_the_prior" /\ err = "") =>
          \A i \in 1..Len(ret) :
              /\ (ret[i].kind = "const") <=> (self.prior_dens # None)
              /\ (ret[i].kind = "const") => (ret[i].v = self.prior_dens.v)

\* prior_dens becomes a constant in a call of set_constant_densities only
DensSetBy ==
    (self.prior_dens = None /\ self'.prior_dens # None)
        => call'.op = "set_constant_densities"

\* C20: every set_priors call leaves prior_dens = None and null_dens as it
\* was, and prior_dens becomes a constant again only by set_constant_densities,
\* so likelihood_under_the_prior returns the constant only if the constant was
\* set after the last set_priors
C20_set_priors_resets_dens == []DensAfterCall /\ [][DensSetBy]_vars

\* set_priors was called on a model that had both constants set
C20_witness ==
    /\ call.op = "set_priors"
    /\ self0.prior_dens # None
    /\ self0.null_dens # None
    /\ self.null_dens = self0.null_dens

====
